---- MODULE Spec2Model ----
(***************************************************************************)
(* Model of src/config.ts: the daily quote cache (fetchQuote) and the      *)
(* dashboard assembled from the environment and the quote.                 *)
(*                                                                         *)
(* Text is a sequence of one-character strings, so that formatting and     *)
(* splitting are computed rather than assumed.  A value of type            *)
(* `string | undefined` is a record [def, v].                              *)
(***************************************************************************)
EXTENDS Integers, Sequences, FiniteSets

(* ---------------------------------------------------------------------- *)
(* Bounds                                                                  *)
(* ---------------------------------------------------------------------- *)

\* A scaled-down calendar: instants per day, days per month, months per year.
SecPerDay == 2
DaysPerMonth == 2
MonthsPerYear == 2
\* The longest time one invocation may take between reading the clock and
\* writing the cache file.
MaxElapsed == 1
\* The last instant of the clock: with the calendar above, one whole year
\* and the first day of the next one.
MaxTime == 9

SecPerMonth == SecPerDay * DaysPerMonth
SecPerYear == SecPerMonth * MonthsPerYear

(* ---------------------------------------------------------------------- *)
(* string | undefined                                                      *)
(* ---------------------------------------------------------------------- *)

Undefined == [def |-> FALSE, v |-> <<>>]
Some(s) == [def |-> TRUE, v |-> s]

\* What a template literal or string concatenation makes of a value.
Str(x) == IF x.def THEN x.v ELSE <<"u", "n", "d", "e", "f", "i", "n", "e", "d">>

(* ---------------------------------------------------------------------- *)
(* Dates                                                                   *)
(* ---------------------------------------------------------------------- *)

getFullYear(t) == t \div SecPerYear
getMonth(t) == (t \div SecPerMonth) % MonthsPerYear
getDate(t) == ((t \div SecPerDay) % DaysPerMonth) + 1

\* A plausible slip: the timestamps are compared, not their days.
sameDayExact(date1, date2) == date1 = date2

\* A plausible slip: the year is left out of the comparison.
sameDayNoYear(date1, date2) ==
    /\ getMonth(date1) = getMonth(date2)
    /\ getDate(date1) = getDate(date2)

\* Returns whether two dates represent the same day.
sameDay(date1, date2) ==
    /\ getFullYear(date1) = getFullYear(date2)
    /\ getMonth(date1) = getMonth(date2)
    /\ getDate(date1) = getDate(date2)

(* ---------------------------------------------------------------------- *)
(* The cache file and the quotes API                                       *)
(* ---------------------------------------------------------------------- *)

\* ~/.cache/motd.txt: whether it exists, its content, its modification time.
NoFile == [exists |-> FALSE, content |-> <<>>, mtime |-> 0]
File(content, mtime) == [exists |-> TRUE, content |-> content, mtime |-> mtime]

\* One record of the API's response; a field the body lacks is undefined.
Record(q, a) == [q |-> q, a |-> a]

RecQA == Record(Some(<<"Q">>), Some(<<"A">>))
RecHiBob == Record(Some(<<"H", "i">>), Some(<<"B", "o", "b">>))
RecNoFields == Record(Undefined, Undefined)

\* What fetch() and response.json() can deliver:
\*   completes  the request completed (fetch did not reject)
\*   ok         response.ok
\*   json       the body parses as JSON
\*   data       the parsed list of records
Response(completes, ok, json, data) ==
    [completes |-> completes, ok |-> ok, json |-> json, data |-> data]

Responses ==
    { Response(FALSE, FALSE, FALSE, <<>>),          \* network error
      Response(TRUE, FALSE, TRUE, <<RecQA>>),       \* non-success status
      Response(TRUE, TRUE, FALSE, <<>>),            \* body is not JSON
      Response(TRUE, TRUE, TRUE, <<>>),             \* empty list
      Response(TRUE, TRUE, TRUE, <<RecNoFields>>),  \* record without q and a
      Response(TRUE, TRUE, TRUE, <<RecQA>>),
      Response(TRUE, TRUE, TRUE, <<RecHiBob, RecQA>>) }

\* Faults of the file system during one invocation.
IOFaults == {"none", "read", "write"}

\* The outcome of an async function: it returns a value or it rejects.
Return(x) == [kind |-> "return", val |-> x, err |-> "none"]
Throw(e) == [kind |-> "throw", val |-> Undefined, err |-> e]

(* ---------------------------------------------------------------------- *)
(* fetchQuote                                                              *)
(* ---------------------------------------------------------------------- *)

\* cacheFile.text(): the content of the file, unless the read fails.
text(file, io) == IF io = "read" THEN Throw("ReadError") ELSE Return(Some(file.content))

\* A plausible slip (the superseded variant of the function): no fallback
\* to the previous quote.
oldQuoteForgotten(file, io) == Return(Undefined)

\* const oldQuote = async () => oldQuoteExists ? await cacheFile.text() : undefined
oldQuote(file, io) == IF file.exists THEN text(file, io) ELSE Return(Undefined)

\* A plausible slip: only a missing file triggers a fetch.
useCachedQuoteAlways(file, today) == file.exists

\* if (oldQuoteExists) { ... useCachedQuote = sameDay(modificationTime, today) ... }
useCachedQuote(file, today) == file.exists /\ sameDay(file.mtime, today)

\* A plausible slip: the separator between quote and author is lost.
quoteTextNoBreak(rec) == Str(rec.q) \o <<"~", " ">> \o Str(rec.a)

\* const text = `${quote}\n~ ${author}`
quoteText(rec) == Str(rec.q) \o <<"\n", "~", " ">> \o Str(rec.a)

\* A plausible slip: the file is opened for appending.
writeAppend(file, content, mtime) == File(file.content \o content, mtime)

\* cacheFile.write(text): the file holds exactly the text afterwards.
write(file, content, mtime) == File(content, mtime)

\* The outcome of one invocation: what it returns or throws, the cache file
\* afterwards, the number of network requests, whether it wrote the file.
Outcome(ret, file, requests, wrote) ==
    [ret |-> ret, file |-> file, requests |-> requests, wrote |-> wrote]

\* Lines 64-68: the response was parsed into data.
storeQuote(file, data, io, wtime) ==
    IF Len(data) = 0
    THEN \* data[0] is undefined: reading .q of it throws, outside the try
         Outcome(Throw("TypeError"), file, 1, FALSE)
    ELSE IF io = "write"
         THEN Outcome(Throw("WriteError"), file, 1, FALSE)
         ELSE Outcome(Return(Some(quoteText(data[1]))),
                      write(file, quoteText(data[1]), wtime), 1, TRUE)

\* A plausible slip: a failed request is repeated once before giving up.
requestRetrying(file, resp, io, wtime) ==
    IF ~resp.completes \/ ~resp.ok \/ ~resp.json
    THEN Outcome(oldQuote(file, io), file, 2, FALSE)
    ELSE storeQuote(file, resp.data, io, wtime)

\* Lines 56-63: the request, and the fallback when it fails.
request(file, resp, io, wtime) ==
    IF ~resp.completes
    THEN Outcome(oldQuote(file, io), file, 1, FALSE)      \* catch
    ELSE IF ~resp.ok
         THEN Outcome(oldQuote(file, io), file, 1, FALSE)
         ELSE IF ~resp.json
              THEN Outcome(oldQuote(file, io), file, 1, FALSE)  \* catch
              ELSE storeQuote(file, resp.data, io, wtime)

\* A plausible slip: the cache is not consulted before the request.
fetchQuoteUncached(file, today, resp, io, wtime) == request(file, resp, io, wtime)

\* Returns a daily random quote.
\*   file   the cache file when the function is called
\*   today  new Date()
\*   resp   what the network delivers if asked
\*   io     the fault of the file system, if any
\*   wtime  the time at which the file is written, if it is
fetchQuote(file, today, resp, io, wtime) ==
    IF useCachedQuote(file, today)
    THEN Outcome(text(file, io), file, 0, FALSE)
    ELSE request(file, resp, io, wtime)

(* ---------------------------------------------------------------------- *)
(* The configuration                                                       *)
(* ---------------------------------------------------------------------- *)

\* catppuccin mocha palette (the colors the dashboard uses).
palette == [red |-> "#f38ba8", peach |-> "#fab387", yellow |-> "#f9e2af",
            text |-> "#cdd6f4"]

\* Convenience function for easier applying colors on text: the ANSI code
\* of the color (one token) followed by the text.
style(color, txt) == <<color>> \o txt

IsSpace(c) == c \in {" ", "\n", "\t"}

RECURSIVE trimStart(_)
trimStart(s) == IF s # <<>> /\ IsSpace(Head(s)) THEN trimStart(Tail(s)) ELSE s

RECURSIVE trimEnd(_)
trimEnd(s) ==
    IF s # <<>> /\ IsSpace(s[Len(s)]) THEN trimEnd(SubSeq(s, 1, Len(s) - 1)) ELSE s

\* String.prototype.trim
trim(s) == trimEnd(trimStart(s))

\* String.prototype.split: the pieces of s between the separators.
RECURSIVE split(_, _)
split(s, sep) ==
    IF \E i \in 1..Len(s) : s[i] = sep
    THEN LET i == CHOOSE k \in 1..Len(s) :
                      s[k] = sep /\ \A j \in 1..(k - 1) : s[j] # sep
         IN  <<SubSeq(s, 1, i - 1)>> \o split(SubSeq(s, i + 1, Len(s)), sep)
    ELSE <<s>>

\* Array.prototype.at(-1)
atLast(list) == IF list = <<>> THEN Undefined ELSE Some(list[Len(list)])

\* process.env.SHELL?.split("/")?.at(-1)
shellOf(SHELL) == IF SHELL.def THEN atLast(split(SHELL.v, "/")) ELSE Undefined

\* What the commands print.
whoami == <<"m", "e", "\n">>
unameO == <<"G", "N", "U", "\n">>
unameM == <<"x", "6", "4", "\n">>
uptimeP == <<"u", "p", " ", "1", "h", "\n">>

\* The three kinds of dashboard entries.
IconText(icon, txt) == [icon |-> Some(icon), text |-> Some(txt), divider |-> Undefined]
Divider(d) == [icon |-> Undefined, text |-> Undefined, divider |-> Some(d)]
Text(txt) == [icon |-> Undefined, text |-> Some(txt), divider |-> Undefined]

\* A plausible slip: the line of an unknown value is shown empty.
optionalLineEmpty(glyph, value) ==
    <<IconText(style(palette.yellow, <<glyph>>),
               style(palette.text, IF value.def THEN value.v ELSE <<>>))>>

\* ...(value === undefined ? [] : [{ icon: ..., text: style(palette.text, value) }])
optionalLine(glyph, value) ==
    IF value = Undefined
    THEN <<>>
    ELSE <<IconText(style(palette.yellow, <<glyph>>), style(palette.text, value.v))>>

\* A plausible slip: the quote line gets an icon like the lines above it.
quoteLineIcon(quote) ==
    IF quote = Undefined
    THEN <<>>
    ELSE <<IconText(style(palette.yellow, <<"quote">>), style(palette.text, quote.v))>>

\* ...(quote === undefined ? [] : [{ text: style(palette.text, quote) }])
quoteLine(quote) ==
    IF quote = Undefined THEN <<>> ELSE <<Text(style(palette.text, quote.v))>>

\* The lines above the optional ones.
dashboardHead ==
    << IconText(style(palette.red, <<"f415">>), style(palette.text, trim(whoami))),
       Divider(<<" ">>),
       IconText(style(palette.peach, <<"f01c5">>), <<"S", "y", "s", "t", "e", "m">>),
       IconText(style(palette.peach, <<"ebc6">>), style(palette.text, trim(unameO))),
       IconText(style(palette.peach, <<"f4bc">>), style(palette.text, trim(unameM))),
       IconText(style(palette.peach, <<"f0535">>), style(palette.text, trim(uptimeP))),
       Divider(<<" ">>),
       IconText(style(palette.yellow, <<"f02dc">>), <<"E", "n", "v">>) >>

\* Content of the dashboard.
dashboard(shell, term, editor, browser, desktop, quote) ==
    dashboardHead
    \o optionalLine("ebca", shell)
    \o optionalLine("ea85", term)
    \o optionalLine("f044", editor)
    \o optionalLine("f0239", browser)
    \o optionalLine("f0379", desktop)
    \o <<Divider(<<" ">>)>>
    \o quoteLine(quote)

\* The environment of one run.
Env(SHELL, TERM, EDITOR, BROWSER, DESKTOP) ==
    [SHELL |-> SHELL, TERM |-> TERM, EDITOR |-> EDITOR, BROWSER |-> BROWSER,
     DESKTOP_SESSION |-> DESKTOP]

\* The module's result: the exported configuration, or none when the
\* evaluation of the module was aborted by an error.
Built(lines) == [built |-> TRUE, dashboard |-> lines]
Aborted == [built |-> FALSE, dashboard |-> <<>>]

\* Lines 93-155: the module reads the environment, awaits the quote and
\* builds the configuration; a rejected await ends the evaluation.
config(env, ret) ==
    IF ret.kind = "throw"
    THEN Aborted
    ELSE Built(dashboard(shellOf(env.SHELL), env.TERM, env.EDITOR, env.BROWSER,
                         env.DESKTOP_SESSION, ret.val))

(* ---------------------------------------------------------------------- *)
(* The program as a state machine: the clock advances, the program runs    *)
(* ---------------------------------------------------------------------- *)

VARIABLES
    now,        \* the wall clock
    cache,      \* the cache file
    run,        \* the latest run: its inputs and the outcome of fetchQuote
    refreshed,  \* the latest run that fetched and wrote: its day and text
    conf        \* the configuration the latest run produced

vars == <<now, cache, run, refreshed, conf>>

\* The number of the calendar day an instant lies in.
DayIndex(t) == t \div SecPerDay

Options(values) == {Undefined} \cup {Some(x) : x \in values}

Envs ==
    { Env(sh, te, ed, br, de) :
        sh \in Options({<<"/", "b", "i", "n", "/", "z", "s", "h">>, <<>>}),
        te \in Options({<<"x", "t">>}),
        ed \in Options({<<"v", "i">>}),
        br \in Options({<<"f", "f">>}),
        de \in Options({<<"k", "d", "e">>}) }

NoRefresh == [done |-> FALSE, day |-> 0, text |-> <<>>]
Refresh(day, txt) == [done |-> TRUE, day |-> day, text |-> txt]

NoRun ==
    [ran |-> FALSE, today |-> 0, old |-> NoFile, env |-> Env(Undefined, Undefined,
     Undefined, Undefined, Undefined), resp |-> Response(FALSE, FALSE, FALSE, <<>>),
     io |-> "none", out |-> Outcome(Return(Undefined), NoFile, 0, FALSE),
     prior |-> NoRefresh, failedAt |-> -1]

\* A run whose request was made and did not lead to a new cache file.
FetchFailed(r) == r.ran /\ r.out.requests > 0 /\ ~r.out.wrote

Init ==
    /\ now = 0
    /\ cache = NoFile
    /\ run = NoRun
    /\ refreshed = NoRefresh
    /\ conf = Aborted

\* Time passes between two runs.
Tick ==
    /\ now < MaxTime
    /\ now' = now + 1
    /\ UNCHANGED <<cache, run, refreshed, conf>>

\* One run of the program: the module is evaluated, fetchQuote is awaited
\* and the configuration is built.  The run takes `elapsed`.
Run(env, resp, io, elapsed) ==
    /\ now + elapsed <= MaxTime
    /\ LET out == fetchQuote(cache, now, resp, io, now + elapsed)
       IN  /\ cache' = out.file
           /\ run' = [ran |-> TRUE, today |-> now, old |-> cache, env |-> env,
                      resp |-> resp, io |-> io, out |-> out, prior |-> refreshed,
                      failedAt |-> IF FetchFailed(run) THEN run.today ELSE -1]
           /\ refreshed' = IF out.wrote
                           THEN Refresh(DayIndex(now), out.file.content)
                           ELSE refreshed
           /\ conf' = config(env, out.ret)
    /\ now' = now + elapsed

\* The environments of the runs that follow one another in time: every
\* variable set, or none.
EnvAll == Env(Some(<<"/", "b", "i", "n", "/", "z", "s", "h">>), Some(<<"x", "t">>),
              Some(<<"v", "i">>), Some(<<"f", "f">>), Some(<<"k", "d", "e">>))
EnvNone == Env(Undefined, Undefined, Undefined, Undefined, Undefined)

\* The file system works.
RunOk == \E env \in {EnvAll, EnvNone}, resp \in Responses, elapsed \in 0..MaxElapsed :
            Run(env, resp, "none", elapsed)

\* The file system fails.
RunFault == \E resp \in Responses, elapsed \in 0..MaxElapsed :
               \E io \in IOFaults \ {"none"} : Run(EnvAll, resp, io, elapsed)

Next == Tick \/ RunOk

Spec == Init /\ [][Next]_vars

NextFault == Tick \/ RunOk \/ RunFault

SpecFault == Init /\ [][NextFault]_vars

\* The runs of one instant, in every environment.
RunEnv == \E env \in Envs, resp \in Responses : Run(env, resp, "none", 0)

SpecConfig == Init /\ [][RunEnv]_vars

(* ---------------------------------------------------------------------- *)
(* Properties                                                              *)
(* ---------------------------------------------------------------------- *)

\* The cache file of the latest run was there and last modified on the
\* calendar day of the run.
SameDayEntry == run.ran /\ run.old.exists /\ DayIndex(run.old.mtime) = DayIndex(run.today)

\* The latest run found no cache file or one of another calendar day.
StaleOrNoEntry ==
    run.ran /\ (~run.old.exists \/ DayIndex(run.old.mtime) # DayIndex(run.today))

\* What a failed fetch falls back to: the previous content, or nothing.
Fallback == IF run.old.exists THEN Some(run.old.content) ELSE Undefined

\* C1: a run that finds a cache entry of the same calendar day makes no
\* network request, returns exactly the stored content and leaves the
\* entry as it was.
C1_SameDayReuse ==
    SameDayEntry =>
        /\ run.out.requests = 0
        /\ run.out.ret = Return(Some(run.old.content))
        /\ cache = run.old

C1_Witness ==
    /\ SameDayEntry
    /\ run.today > run.old.mtime
    /\ run.out.ret = Return(Some(<<"Q", "\n", "~", " ", "A">>))

\* The latest run got a success response whose first record has q and a.
GoodResponse ==
    /\ run.resp.completes /\ run.resp.ok /\ run.resp.json
    /\ Len(run.resp.data) >= 1
    /\ run.resp.data[1].q.def /\ run.resp.data[1].a.def

\* C2: a run without a same-day entry whose fetch succeeds with first record
\* (q, a) returns q + "\n~ " + a, and the cache file then exists with exactly
\* that text as content.
C2_SuccessfulRefresh ==
    (StaleOrNoEntry /\ GoodResponse) =>
        LET txt == run.resp.data[1].q.v \o <<"\n", "~", " ">> \o run.resp.data[1].a.v
        IN  /\ run.out.ret = Return(Some(txt))
            /\ cache.exists
            /\ cache.content = txt

C2_Witness ==
    /\ StaleOrNoEntry /\ GoodResponse
    /\ run.old.exists
    /\ run.old.content = <<"Q", "\n", "~", " ", "A">>
    /\ cache.content = <<"H", "i", "\n", "~", " ", "B", "o", "b">>

\* C3: a run whose request fails to complete or gets a non-success status
\* raises no error, returns the previous content (nothing if there was no
\* entry) and leaves the cache as it was.
C3_FetchFailureFallback ==
    (run.ran /\ run.out.requests > 0 /\ (~run.resp.completes \/ ~run.resp.ok)) =>
        /\ run.out.ret = Return(Fallback)
        /\ cache = run.old

C3_Witness ==
    /\ run.ran /\ run.out.requests > 0 /\ ~run.resp.completes
    /\ run.old.exists
    /\ run.out.ret = Return(Some(run.old.content))
    /\ cache = run.old

\* The latest run got a success status with a body that holds no quote:
\* not JSON, an empty list, or a record without q or a.
UselessBody ==
    /\ run.ran /\ run.out.requests > 0
    /\ run.resp.completes /\ run.resp.ok
    /\ \/ ~run.resp.json
       \/ Len(run.resp.data) = 0
       \/ ~run.resp.data[1].q.def \/ ~run.resp.data[1].a.def

\* C4: a success status with an empty or malformed body is treated as a
\* failed fetch: the run returns the previous content (or nothing), raises
\* no error and does not write the cache.
C4_EmptyOrMalformedFallsBack ==
    UselessBody =>
        /\ run.out.ret = Return(Fallback)
        /\ cache = run.old

\* A quote-related failure in the latest run: network error, non-success
\* status, empty or malformed body, failed read or write of the cache file.
QuoteFailure ==
    /\ run.ran
    /\ \/ run.out.requests > 0 /\ (~run.resp.completes \/ ~run.resp.ok)
       \/ UselessBody
       \/ run.io # "none"

\* C5: no quote-related failure aborts the build: the run still produces a
\* configuration with a dashboard.
C5_FailuresAbsorbed == QuoteFailure => conf.built

\* C6: an existing entry is used without a request exactly when its
\* modification time lies in the calendar day of the run, however little or
\* much time has passed.
C6_DayBoundary ==
    (run.ran /\ run.old.exists) =>
        (run.out.requests = 0 <=> DayIndex(run.old.mtime) = DayIndex(run.today))

\* An entry written in the last instant of a day is stale one instant later.
C6_Witness ==
    /\ run.ran /\ run.old.exists
    /\ run.old.mtime % SecPerDay = SecPerDay - 1
    /\ run.today = run.old.mtime + 1
    /\ run.out.requests = 1

\* A quote body, then "~ " and the author, on exactly two lines.
WellFormedQuote(content) ==
    LET lines == split(content, "\n")
    IN  /\ Len(lines) = 2
        /\ Len(lines[2]) >= 2
        /\ SubSeq(lines[2], 1, 2) = <<"~", " ">>

OptionalValues ==
    << <<"ebca", shellOf(run.env.SHELL)>>, <<"ea85", run.env.TERM>>,
       <<"f044", run.env.EDITOR>>, <<"f0239", run.env.BROWSER>>,
       <<"f0379", run.env.DESKTOP_SESSION>> >>

IsPresent(p) == p[2].def

PresentValues == SelectSeq(OptionalValues, IsPresent)

\* C8: the dashboard has a line for exactly the values that are present, in
\* the order shell, terminal, editor, browser, desktop, then the divider,
\* then the quote; an absent value has no line, and the quote line is the
\* last one and has no icon.
C8_DashboardComposition ==
    (run.ran /\ conf.built) =>
        LET lines == conf.dashboard
            h == Len(dashboardHead)
            n == Len(PresentValues)
            quote == run.out.ret.val
        IN  /\ Len(lines) = h + n + 1 + (IF quote.def THEN 1 ELSE 0)
            /\ \A i \in 1..n :
                  /\ lines[h + i].icon = Some(<<palette.yellow, PresentValues[i][1]>>)
                  /\ lines[h + i].text = Some(<<palette.text>> \o PresentValues[i][2].v)
                  /\ ~lines[h + i].divider.def
            /\ lines[h + n + 1].divider.def
            /\ ~lines[h + n + 1].text.def
            /\ quote.def =>
                  /\ lines[Len(lines)].icon = Undefined
                  /\ lines[Len(lines)].text = Some(<<palette.text>> \o quote.v)
                  /\ ~lines[Len(lines)].divider.def

\* Terminal and browser are known, shell, editor and desktop are not, and
\* there is a quote.
C8_Witness ==
    /\ run.ran /\ conf.built
    /\ ~run.env.SHELL.def /\ run.env.TERM.def /\ ~run.env.EDITOR.def
    /\ run.env.BROWSER.def /\ ~run.env.DESKTOP_SESSION.def
    /\ run.out.ret.val.def
    /\ Len(conf.dashboard) = Len(dashboardHead) + 4

\* C9: after a run on calendar day D has fetched and written the cache,
\* every later run on day D makes no request and returns that text; a
\* request is made only by a run whose day differs from the day the entry
\* was modified (or that finds no entry).
C9_OneRefreshPerDay ==
    /\ (run.ran /\ run.prior.done /\ run.prior.day = DayIndex(run.today)) =>
          /\ run.out.requests = 0
          /\ run.out.ret = Return(Some(run.prior.text))
    /\ (run.ran /\ run.out.requests > 0) => StaleOrNoEntry

C9_Witness ==
    /\ run.ran /\ run.prior.done /\ run.prior.day = DayIndex(run.today)
    /\ run.today > run.old.mtime
    /\ run.resp.completes /\ run.resp.ok /\ run.resp.json /\ run.resp.data # <<>>
    /\ run.out.requests = 0

\* C10: one run makes at most one request; a run whose fetch failed leaves
\* the modification time of the entry alone, and the run after it, even on
\* the same calendar day, makes a request again.
C10_RetryOnNextInvocation ==
    /\ run.ran => run.out.requests <= 1
    /\ (run.ran /\ run.out.requests > 0 /\ (~run.resp.completes \/ ~run.resp.ok)) =>
          /\ cache.exists = run.old.exists
          /\ cache.mtime = run.old.mtime
    /\ (run.ran /\ run.failedAt >= 0) => run.out.requests = 1

C10_Witness ==
    /\ run.ran /\ run.failedAt >= 0
    /\ run.old.exists
    /\ DayIndex(run.failedAt) = DayIndex(run.today)
    /\ run.today > run.failedAt
    /\ run.out.requests = 1

====
